---------------------------- MODULE Spec2Model ----------------------------
(***************************************************************************)
(* Model of subsys/bluetooth/host/settings.c (Zephyr Bluetooth host):      *)
(*   - the settings path codec  bt_settings_encode_key / _decode_key,      *)
(*   - the settings handler     set_setting  (restore dispatcher),         *)
(*   - the commit handler       commit_settings (bootstrap coordinator),   *)
(*   - the work item            save_id (deferred persist task).           *)
(*                                                                         *)
(* Characters are their ASCII codes, C strings are sequences of non-NUL    *)
(* codes (the terminating NUL is implicit), memory is a function from      *)
(* byte offsets to byte values.                                            *)
(***************************************************************************)
EXTENDS Integers, Sequences, FiniteSets, TLC

(***************************************************************************)
(* Bounds of the model                                                     *)
(***************************************************************************)
\* largest destination capacity (path_size) handed to the encoder
MaxCap == 23
\* how far behind the destination buffer the first NUL byte of the
\* neighbouring memory may lie (decides where an over-long strlen() stops)
MaxOverread == 1
\* bytes of neighbouring memory modelled behind the largest buffer
Slack == 4
\* set_setting calls (stored keys delivered) in one behaviour
MaxRestores == 2

(***************************************************************************)
(* Characters and string literals                                          *)
(***************************************************************************)
NUL == 0
\* '/'  SETTINGS_NAME_SEPARATOR
CH_SLASH == 47
\* '='  SETTINGS_NAME_END
CH_EQ == 61
\* '0'
CH_0 == 48
\* '1'
CH_1 == 49
\* '9'
CH_9 == 57
\* 'a', 'f', 'A', 'F'
CH_a == 97
CH_f == 102
CH_A == 65
CH_F == 70
\* content of a byte nobody has written yet
FILLER == 170

\* "bt/"
STR_BT == <<98, 116, 47>>
\* "id"
STR_ID == <<105, 100>>
\* "name"
STR_NAME == <<110, 97, 109, 101>>
\* "appearance"
STR_APPEARANCE == <<97, 112, 112, 101, 97, 114, 97, 110, 99, 101>>
\* "irk"
STR_IRK == <<105, 114, 107>>

\* the value of key == NULL / name == NULL: a value no C string equals
NULLPTR == <<-1>>

\* character j (0-based) of the C string s, NUL at and behind its end
CharAt(s, j) == IF j < Len(s) THEN s[j + 1] ELSE NUL

SetMin(S) == CHOOSE x \in S : \A y \in S : x <= y

(***************************************************************************)
(* libc / lib/os helpers used by the codec, acting on a memory image       *)
(*   st = [mem : offsets -> bytes, wr : offsets written, rd : offsets of   *)
(*         the destination read, len : the local variable len]             *)
(***************************************************************************)
MemTop == MaxCap + MaxOverread + Slack

\* path[i] = c
Store(st, i, c) ==
    [st EXCEPT !.mem = [j \in DOMAIN st.mem |-> IF j = i THEN c ELSE st.mem[j]],
               !.wr = @ \cup {i}]

RECURSIVE StoreSeq(_, _, _, _)
\* path[dst + k] = chars[k + 1] for k = from .. Len(chars) - 1
StoreSeq(st, dst, chars, from) ==
    IF from >= Len(chars) THEN st
    ELSE StoreSeq(Store(st, dst + from, chars[from + 1]), dst, chars, from + 1)

\* strcpy(&path[dst], s): the characters of s and the terminating NUL
strcpy(st, dst, s) == StoreSeq(st, dst, s \o <<NUL>>, 0)

\* strncpy(&path[dst], s, n): exactly n bytes, NUL padded, no terminator
\* when strlen(s) >= n
strncpy(st, dst, s, n) ==
    StoreSeq(st, dst, [k \in 1..n |-> CharAt(s, k - 1)], 0)

\* offset of the first NUL at or behind `from`
FirstNul(mem, from) ==
    SetMin({i \in DOMAIN mem : i >= from /\ mem[i] = NUL} \cup {MemTop})

\* strlen(&path[from]), recording every offset the scan reads
strlen(st, from) == FirstNul(st.mem, from) - from

strlenReads(st, from) == from .. FirstNul(st.mem, from)

\* hex2char(): lower-case digit of a nibble
hex2char(x) == IF x <= 9 THEN CH_0 + x ELSE CH_a + (x - 10)

\* char2hex(): value of a hex digit, -1 (error) for any other character
char2hex(c) ==
    IF c >= CH_0 /\ c <= CH_9 THEN c - CH_0
    ELSE IF c >= CH_a /\ c <= CH_f THEN c - CH_a + 10
    ELSE IF c >= CH_A /\ c <= CH_F THEN c - CH_A + 10
    ELSE -1

\* bin2hex(&b, 1, &path[dst], hexlen): result value
bin2hexRet(hexlen) == IF hexlen < 3 THEN 0 ELSE 2

\* bin2hex(&b, 1, &path[dst], hexlen): effect on memory
bin2hex(st, b, dst, hexlen) ==
    IF hexlen < 3 THEN st
    ELSE StoreSeq(st, dst, <<hex2char(b \div 16), hex2char(b % 16), NUL>>, 0)


(***************************************************************************)
(* Path codec: bt_settings_encode_key (the variant built without           *)
(* CONFIG_BT_SETTINGS_USE_PRINTK)                                          *)
(***************************************************************************)
RECURSIVE EncodeAddrLoop_Ascending(_, _, _, _)
\* EncodeAddrLoop with the bytes taken in index order 0..5 (no reversal)
EncodeAddrLoop_Ascending(st, path_size_, addr_, i) ==
    IF i < 0 \/ ~(st.len < path_size_) THEN st
    ELSE LET hexlen == path_size_ - st.len
             s1 == bin2hex(st, addr_.val[5 - i], st.len, hexlen)
         IN  EncodeAddrLoop_Ascending([s1 EXCEPT !.len = @ + bin2hexRet(hexlen)],
                                      path_size_, addr_, i - 1)

RECURSIVE EncodeAddrLoop(_, _, _, _)
\* for (int8_t i = 5; i >= 0 && len < path_size; i--)
\*         len += bin2hex(&addr->a.val[i], 1, &path[len], path_size - len);
EncodeAddrLoop(st, path_size_, addr_, i) ==
    IF i < 0 \/ ~(st.len < path_size_) THEN st
    ELSE LET hexlen == path_size_ - st.len
             s1 == bin2hex(st, addr_.val[i], st.len, hexlen)
         IN  EncodeAddrLoop([s1 EXCEPT !.len = @ + bin2hexRet(hexlen)],
                            path_size_, addr_, i - 1)

\* strcpy(path, "bt/"); strncpy(&path[len], subsys, path_size - len);
\* len = strlen(path); if (len < path_size) { path[len] = '/'; len++; }
EncodeSubsys(st, path_size_, subsys_) ==
    LET s1 == strcpy(st, 0, STR_BT)
        s2 == strncpy(s1, s1.len, subsys_, path_size_ - s1.len)
        s3 == [s2 EXCEPT !.len = strlen(s2, 0), !.rd = @ \cup strlenReads(s2, 0)]
    IN  IF s3.len < path_size_
        THEN [Store(s3, s3.len, CH_SLASH) EXCEPT !.len = @ + 1]
        ELSE s3

\* if (len < path_size) { path[len] = '0' + addr->type; len++; }
EncodeType(st, path_size_, addr_) ==
    IF st.len < path_size_
    THEN [Store(st, st.len, (CH_0 + addr_.type) % 256) EXCEPT !.len = @ + 1]
    ELSE st

\* if (key && len < path_size) { path[len] = '/'; len++;
\*     strncpy(&path[len], key, path_size - len); len += strlen(&path[len]); }
EncodeLeaf(st, path_size_, key_) ==
    IF key_ # NULLPTR /\ st.len < path_size_
    THEN LET s1 == [Store(st, st.len, CH_SLASH) EXCEPT !.len = @ + 1]
             s2 == strncpy(s1, s1.len, key_, path_size_ - s1.len)
         IN  [s2 EXCEPT !.len = @ + strlen(s2, s2.len),
                        !.rd = @ \cup strlenReads(s2, s2.len)]
    ELSE st

\* EncodeTruncate with the terminator one byte too far: path[path_size] = '\0'
EncodeTruncate_OffByOne(st, path_size_) ==
    IF st.len >= path_size_ THEN Store(st, path_size_, NUL) ELSE st

\* if (len >= path_size) { path[path_size - 1] = '\0'; }
EncodeTruncate(st, path_size_) ==
    IF st.len >= path_size_ THEN Store(st, path_size_ - 1, NUL) ELSE st

\* the whole function, from the memory image mem0 it is called on
bt_settings_encode_key(mem0, path_size_, subsys_, addr_, key_) ==
    LET st == [mem |-> mem0, wr |-> {}, rd |-> {}, len |-> 3]
    IN  IF st.len < path_size_
        THEN EncodeTruncate(
               EncodeLeaf(
                 EncodeType(
                   EncodeAddrLoop(EncodeSubsys(st, path_size_, subsys_),
                                  path_size_, addr_, 5),
                   path_size_, addr_),
                 path_size_, key_),
               path_size_)
        ELSE IF path_size_ > 0 THEN Store(st, 0, NUL)
        ELSE st

(***************************************************************************)
(* Path codec: bt_settings_decode_key                                      *)
(***************************************************************************)
RECURSIVE settings_name_next(_, _)
\* settings_name_next(name, NULL): length of the first segment of name, which
\* ends at NUL, at '=' or at '/'; counted from character `from`
settings_name_next(name_, from) ==
    LET c == CharAt(name_, from)
    IN  IF c = NUL \/ c = CH_EQ \/ c = CH_SLASH THEN 0
        ELSE 1 + settings_name_next(name_, from + 1)

\* hex2bin(&key[off], 2, &b, 1): the byte left in b (old value `old`).  The
\* high nibble is stored before the low digit is looked at; the result value
\* (0 on a bad digit) is dropped by the caller.
hex2bin(key_, off, old) ==
    LET hi == char2hex(CharAt(key_, off))
        lo == char2hex(CharAt(key_, off + 1))
    IN  IF hi < 0 THEN old
        ELSE IF lo < 0 THEN (hi * 16) % 256
        ELSE ((hi * 16) % 256) + lo

\* DecodeAddrLoop storing pair i to a.val[i] instead of a.val[5 - i]
DecodeAddrLoop_Forward(key_, val) ==
    [j \in 0..5 |-> hex2bin(key_, j * 2, val[j])]

\* for (uint8_t i = 0; i < 6; i++)
\*         hex2bin(&key[i * 2], 2, &addr->a.val[5 - i], 1);
DecodeAddrLoop(key_, val) ==
    [j \in 0..5 |-> hex2bin(key_, (5 - j) * 2, val[j])]

EINVAL == 22
ENOENT == 2

\* bt_settings_decode_key taking every type digit but '0' for "random"
bt_settings_decode_key_AnyType(key_, addr_) ==
    IF settings_name_next(key_, 0) # 13
    THEN [ret |-> -EINVAL, addr |-> addr_]
    ELSE IF CharAt(key_, 12) = CH_0
    THEN [ret |-> 0, addr |-> [type |-> 0, val |-> DecodeAddrLoop(key_, addr_.val)]]
    ELSE [ret |-> 0, addr |-> [type |-> 1, val |-> DecodeAddrLoop(key_, addr_.val)]]

\* result [ret, addr] of bt_settings_decode_key(key, addr)
bt_settings_decode_key(key_, addr_) ==
    IF settings_name_next(key_, 0) # 13
    THEN [ret |-> -EINVAL, addr |-> addr_]
    ELSE IF CharAt(key_, 12) = CH_0
    THEN [ret |-> 0, addr |-> [type |-> 0, val |-> DecodeAddrLoop(key_, addr_.val)]]
    ELSE IF CharAt(key_, 12) = CH_1
    THEN [ret |-> 0, addr |-> [type |-> 1, val |-> DecodeAddrLoop(key_, addr_.val)]]
    ELSE [ret |-> -EINVAL, addr |-> addr_]

(***************************************************************************)
(* State                                                                   *)
(***************************************************************************)
VARIABLES
    call,       \* the codec function that ran last: "none", "encode", "decode"
    path,       \* memory at and behind the encoder's destination `path`
    path_size,  \* the encoder's path_size argument
    subsys,     \* the encoder's subsys argument
    addr,       \* the encoder's *addr argument
    key,        \* the encoder's key argument (NULLPTR when absent)
    wr,         \* offsets from `path` the encoder stored to
    rd,         \* offsets from `path` the encoder's strlen() calls loaded
    dkey,       \* the decoder's key argument
    daddr0,     \* the decoder's *addr before the call
    daddr,      \* the decoder's *addr after the call
    dret        \* the decoder's result

codec_vars == <<call, path, path_size, subsys, addr, key, wr, rd,
                dkey, daddr0, daddr, dret>>

(***************************************************************************)
(* Inputs of the codec                                                     *)
(***************************************************************************)
\* bt_addr_le_t values: type BT_ADDR_LE_PUBLIC (0) or BT_ADDR_LE_RANDOM (1)
AddrTypes == {0, 1}

Bytes == 0..255

MkVal(b0, b1, b2, b3, b4, b5) ==
    [j \in 0..5 |-> IF j = 0 THEN b0 ELSE IF j = 1 THEN b1 ELSE IF j = 2 THEN b2
                    ELSE IF j = 3 THEN b3 ELSE IF j = 4 THEN b4 ELSE b5]

BaseVals == {MkVal(1, 2, 3, 4, 5, 6), MkVal(171, 205, 239, 0, 255, 154)}

\* every byte value in every position of the address
FullRangeVals ==
    {[j \in 0..5 |-> IF j = p THEN b ELSE base[j]] :
        base \in BaseVals, p \in 0..5, b \in Bytes}

\* subsystem tags "", "s", "ccc" and leaf keys NULL, "", "k"
Subsystems == {<<>>, <<115>>, <<99, 99, 99>>}

LeafKeys == {NULLPTR, <<>>, <<107>>}

KeyLen(key_) == IF key_ = NULLPTR THEN 0 ELSE 1 + Len(key_)

\* strlen of the complete encoding "bt/<subsys>/<addr><type>[/<key>]"
FullLen(subsys_, key_) == 3 + Len(subsys_) + 1 + 12 + 1 + KeyLen(key_)

\* the memory a call finds: nothing written, first NUL behind the buffer at nul_at
FreshMem(nul_at) == [i \in 0..(MemTop - 1) |-> IF i = nul_at THEN NUL ELSE FILLER]

\* the C string that starts at offset `from` of the memory image
RECURSIVE CStringAt(_, _)
CStringAt(mem, from) ==
    IF from >= MemTop \/ mem[from] = NUL THEN <<>>
    ELSE <<mem[from]>> \o CStringAt(mem, from + 1)

\* lower-case text of an address and a type, as the path grammar writes them
HexText(val, t) ==
    [k \in 1..13 |-> IF k = 13 THEN CH_0 + t
                     ELSE IF k % 2 = 1 THEN hex2char(val[5 - ((k - 1) \div 2)] \div 16)
                     ELSE hex2char(val[5 - ((k - 1) \div 2)] % 16)]

\* "aBcDeF0123450": upper-case digits, which char2hex() takes too
UpperText == <<97, 66, 99, 68, 101, 70, 48, 49, 50, 51, 52, 53, 48>>

\* characters put in place of one character of a well-formed key:
\* 'g', 'G', ' ', '2', ':', '@', '`'
BadChars == {103, 71, 32, 50, 58, 64, 96}

\* keys handed to the decoder: well-formed ones, their prefixes, ones with
\* text behind the 13 characters, ones with one character replaced
DecodeKeys ==
    LET good == {HexText(v, t) : v \in BaseVals, t \in AddrTypes} \cup {UpperText}
    IN  good
        \cup {SubSeq(g, 1, n) : g \in good, n \in 0..12}
        \cup {g \o tail : g \in good,
                          tail \in {<<CH_0>>, <<CH_SLASH>>, <<CH_SLASH, 107>>,
                                    <<CH_EQ, 107>>, <<CH_0, CH_SLASH, 107>>}}
        \cup {[g EXCEPT ![p] = c] : g \in good, p \in 1..13, c \in BadChars}
        \cup {SubSeq(g, 1, 5) \o <<CH_SLASH>> \o SubSeq(g, 7, 13) : g \in good}

\* what *addr holds before the decoder is called
CallerAddrs == {[type |-> 1, val |-> MkVal(17, 34, 51, 68, 85, 102)],
                [type |-> 0, val |-> MkVal(0, 0, 0, 0, 0, 0)]}

(***************************************************************************)
(* Device state bt_dev and the settings handlers                           *)
(***************************************************************************)
\* CONFIG_BT_ID_MAX: elements of bt_dev.id_addr[] and bt_dev.irk[]
CONFIG_BT_ID_MAX == 2
\* CONFIG_BT_DEVICE_NAME_MAX: sizeof(bt_dev.name) - 1
CONFIG_BT_DEVICE_NAME_MAX == 3
\* sizeof(bt_dev.id_addr[0]): a packed bt_addr_le_t, one type byte and six
\* address bytes
ADDR_LE_SIZE == 7
\* sizeof(bt_dev.irk[0])
IRK_SIZE == 16
\* sizeof(bt_dev.appearance): a uint16_t
APPEARANCE_SIZE == 2
\* the error a failing read_cb reports (-EIO)
EIO == 5
\* the error a failing identity set-up reports (-EADDRNOTAVAIL / -ENOMEM ...)
ENOMEM == 12
\* bits of a size_t / ssize_t
SIZE_BITS == 32
\* CONFIG_BT_DEVICE_NAME, here "Z"
CONFIG_BT_DEVICE_NAME == <<90>>

SIZEOF_ID_ADDR == CONFIG_BT_ID_MAX * ADDR_LE_SIZE
SIZEOF_IRK == CONFIG_BT_ID_MAX * IRK_SIZE
SIZEOF_NAME == CONFIG_BT_DEVICE_NAME_MAX + 1

\* A size_t is kept as two half-width limbs [hi, lo], value hi * Limb + lo.
Limb == 2 ^ (SIZE_BITS \div 2)

\* (size_t)x of a ssize_t x: the conversion that comparing or dividing a
\* ssize_t with a sizeof() makes; a negative x wraps to 2^SIZE_BITS + x
ToSizeT(x) ==
    IF x >= 0 THEN [hi |-> x \div Limb, lo |-> x % Limb]
    ELSE [hi |-> Limb - 1, lo |-> Limb + x]

\* a < n for a size_t a and a sizeof() n
SizeLess(a, n) == a.hi = 0 /\ a.lo < n

\* (uint8_t)(a / n) for a size_t a and a sizeof() n: the low byte of the
\* quotient, by long division over the limbs
SizeDivU8(a, n) == ((((a.hi % n) * Limb) + a.lo) \div n) % 256

Zeroes(n) == [i \in 0..(n - 1) |-> 0]

\* read_cb(cb_arg, buf, maxlen) on a stored value `payload`: copies
\* min(len_rd, maxlen) bytes to the start of buf and returns their number, or
\* fails with a negative result and leaves buf alone
read_cb(payload, fail, buf, maxlen) ==
    IF fail THEN [len |-> -EIO, buf |-> buf]
    ELSE LET n == IF Len(payload) < maxlen THEN Len(payload) ELSE maxlen
         IN  [len |-> n,
              buf |-> [i \in DOMAIN buf |-> IF i < n THEN payload[i + 1] ELSE buf[i]]]

RECURSIVE strncmp0(_, _, _, _)
\* strncmp(a, b, n) == 0, comparing from character j on
strncmp0(a, b, n, j) ==
    IF j >= n THEN TRUE
    ELSE IF CharAt(a, j) # CharAt(b, j) THEN FALSE
    ELSE IF CharAt(a, j) = NUL THEN TRUE
    ELSE strncmp0(a, b, n, j + 1)

\* !strncmp(name, lit, len)
NameIs(name_, lit, len) == strncmp0(name_, lit, len, 0)

\* result of a handler that did not call read_cb: the device state it leaves
\* and its return value
Result(dev, ret_) == [dev |-> dev, ret |-> ret_, read |-> FALSE, len |-> 0]

\* result of a handler to which read_cb returned len
ResultRead(dev, ret_, len) == [dev |-> dev, ret |-> ret_, read |-> TRUE, len |-> len]

\* SetId that counts bytes where it should count elements
SetId_CountBytes(dev, payload, fail) ==
    IF "BT_DEV_PRESET_ID" \in dev.flags THEN Result(dev, 0)
    ELSE LET r == read_cb(payload, fail, dev.id_addr, SIZEOF_ID_ADDR)
         IN  IF SizeLess(ToSizeT(r.len), ADDR_LE_SIZE)
             THEN ResultRead([dev EXCEPT !.id_addr = Zeroes(SIZEOF_ID_ADDR),
                                         !.id_count = 0], 0, r.len)
             ELSE ResultRead([dev EXCEPT !.id_addr = r.buf,
                                         !.id_count = SizeDivU8(ToSizeT(r.len), 1)],
                             0, r.len)

\* SetId that does not look at BT_DEV_PRESET_ID
SetId_IgnorePreset(dev, payload, fail) ==
    LET r == read_cb(payload, fail, dev.id_addr, SIZEOF_ID_ADDR)
    IN  IF SizeLess(ToSizeT(r.len), ADDR_LE_SIZE)
        THEN ResultRead([dev EXCEPT !.id_addr = Zeroes(SIZEOF_ID_ADDR),
                                    !.id_count = 0], 0, r.len)
        ELSE ResultRead([dev EXCEPT !.id_addr = r.buf,
                                    !.id_count = SizeDivU8(ToSizeT(r.len), ADDR_LE_SIZE)],
                        0, r.len)

\* if (!strncmp(name, "id", len)) { ... }
SetId(dev, payload, fail) ==
    IF "BT_DEV_PRESET_ID" \in dev.flags THEN Result(dev, 0)
    ELSE LET r == read_cb(payload, fail, dev.id_addr, SIZEOF_ID_ADDR)
         IN  IF SizeLess(ToSizeT(r.len), ADDR_LE_SIZE)
             THEN ResultRead([dev EXCEPT !.id_addr = Zeroes(SIZEOF_ID_ADDR),
                                     !.id_count = 0], 0, r.len)
             ELSE ResultRead([dev EXCEPT !.id_addr = r.buf,
                                     !.id_count = SizeDivU8(ToSizeT(r.len), ADDR_LE_SIZE)],
                         0, r.len)

\* if (!strncmp(name, "name", len)) { ... }   (CONFIG_BT_DEVICE_NAME_DYNAMIC)
SetName(dev, payload, fail) ==
    LET r == read_cb(payload, fail, dev.name, SIZEOF_NAME - 1)
    IN  IF r.len < 0 THEN ResultRead(dev, 0, r.len)
        ELSE ResultRead([dev EXCEPT !.name = [r.buf EXCEPT ![r.len] = NUL]], 0, r.len)

\* SetAppearance without the len_rd check
SetAppearance_NoLengthCheck(dev, payload, fail) ==
    LET r == read_cb(payload, fail, dev.appearance, APPEARANCE_SIZE)
    IN  IF r.len < 0 THEN ResultRead(dev, r.len, r.len)
        ELSE ResultRead([dev EXCEPT !.appearance = r.buf], 0, r.len)

\* if (!strncmp(name, "appearance", len)) { ... }
\*                                        (CONFIG_BT_DEVICE_APPEARANCE_DYNAMIC)
SetAppearance(dev, payload, fail) ==
    IF Len(payload) # APPEARANCE_SIZE THEN Result(dev, -EINVAL)
    ELSE LET r == read_cb(payload, fail, dev.appearance, APPEARANCE_SIZE)
         IN  IF r.len < 0 THEN ResultRead(dev, r.len, r.len)
             ELSE ResultRead([dev EXCEPT !.appearance = r.buf], 0, r.len)

\* if (!strncmp(name, "irk", len)) { ... }   (CONFIG_BT_PRIVACY)
SetIrk(dev, payload, fail) ==
    LET r == read_cb(payload, fail, dev.irk, SIZEOF_IRK)
    IN  IF SizeLess(ToSizeT(r.len), IRK_SIZE)
        THEN IF r.len < 0 THEN ResultRead(dev, 0, r.len)
             ELSE ResultRead([dev EXCEPT !.irk = Zeroes(SIZEOF_IRK)], 0, r.len)
        ELSE ResultRead([dev EXCEPT !.irk = r.buf], 0, r.len)

\* set_setting(name, len_rd, read_cb, cb_arg), where the stored value is
\* `payload` (len_rd == Len(payload)) and `fail` says whether read_cb fails
set_setting(dev, name_, payload, fail) ==
    IF "BT_DEV_ENABLE" \notin dev.flags THEN Result(dev, 0)
    ELSE IF name_ = NULLPTR THEN Result(dev, -ENOENT)
    ELSE LET len == settings_name_next(name_, 0)
         IN  IF NameIs(name_, STR_ID, len) THEN SetId(dev, payload, fail)
             ELSE IF NameIs(name_, STR_NAME, len) THEN SetName(dev, payload, fail)
             ELSE IF NameIs(name_, STR_APPEARANCE, len)
                  THEN SetAppearance(dev, payload, fail)
             ELSE IF NameIs(name_, STR_IRK, len) THEN SetIrk(dev, payload, fail)
             ELSE Result(dev, -ENOENT)

(***************************************************************************)
(* Collaborators of commit_settings (hci_core.c / id.c)                    *)
(***************************************************************************)
\* the address and the IRK the controller / the generator hands out
GenAddr(t) == [i \in 0..(ADDR_LE_SIZE - 1) |-> IF i = 0 THEN t ELSE 192 + i]

GenIrk == [i \in 0..(IRK_SIZE - 1) |-> 224 + i]

\* identity 0 := (address a, fresh IRK); its data has to be stored
SetupId(dev, a) ==
    [dev EXCEPT !.id_addr = [i \in DOMAIN @ |-> IF i < ADDR_LE_SIZE THEN a[i] ELSE @[i]],
                !.irk = [i \in DOMAIN @ |-> IF i < IRK_SIZE THEN GenIrk[i] ELSE @[i]],
                !.id_count = 1,
                !.flags = @ \cup {"BT_DEV_STORE_ID"}]

\* bt_set_name(CONFIG_BT_DEVICE_NAME)
bt_set_name(dev, n) ==
    IF Len(n) > CONFIG_BT_DEVICE_NAME_MAX THEN dev
    ELSE [dev EXCEPT !.name = [i \in DOMAIN @ |-> IF i <= Len(n) THEN CharAt(n, i)
                                                  ELSE @[i]]]

\* bt_setup_public_id_addr(): the controller has a public address ("ok"), has
\* none ("none": success, still no identity) or the set-up fails ("fail")
bt_setup_public_id_addr(dev, outcome) ==
    IF outcome = "ok" THEN [dev |-> SetupId(dev, GenAddr(0)), err |-> 0]
    ELSE IF outcome = "none" THEN [dev |-> dev, err |-> 0]
    ELSE [dev |-> dev, err |-> -ENOMEM]

\* bt_setup_random_id_addr(): a static random address is generated ("ok") or
\* the set-up fails
bt_setup_random_id_addr(dev, outcome) ==
    IF outcome = "ok" THEN [dev |-> SetupId(dev, GenAddr(1)), err |-> 0]
    ELSE [dev |-> dev, err |-> -ENOMEM]

\* bt_finalize_init()
bt_finalize_init(dev) == [dev EXCEPT !.flags = @ \cup {"BT_DEV_READY"}]

(***************************************************************************)
(* commit_settings                                                         *)
(***************************************************************************)
\* f is among the collaborators a run called
Called(calls, f) == \E i \in 1..Len(calls) : calls[i] = f

\* a call of f comes before every call of g
CalledBefore(calls, f, g) ==
    \A j \in 1..Len(calls) : calls[j] = g => \E i \in 1..(j - 1) : calls[i] = f

\* what a run of commit_settings did: the device state it leaves, its return
\* value and the collaborators it called
Commit(dev, ret_, calls) ==
    [dev |-> dev, ret |-> ret_, calls |-> calls]

\* if (bt_dev.name[0] == '\0') { bt_set_name(CONFIG_BT_DEVICE_NAME); }
CommitName(dev) ==
    IF dev.name[0] = NUL THEN bt_set_name(dev, CONFIG_BT_DEVICE_NAME) ELSE dev

\* (variant) the identity is handed to the work queue before the stack is
\* finalized
CommitFinish_SaveFirst(dev, calls) ==
    LET unready == "BT_DEV_READY" \notin dev.flags
        c0 == IF "BT_DEV_STORE_ID" \in dev.flags
              THEN Append(calls, "bt_settings_save_id") ELSE calls
    IN  [dev |-> [dev EXCEPT !.flags = (@ \ {"BT_DEV_STORE_ID"}) \cup {"BT_DEV_READY"}],
         ret |-> 0,
         calls |-> IF unready THEN Append(c0, "bt_finalize_init") ELSE c0]

\* (variant) BT_DEV_STORE_ID is tested but not cleared
CommitFinish_NoClear(dev, calls) ==
    LET unready == "BT_DEV_READY" \notin dev.flags
        c1 == IF unready THEN Append(calls, "bt_finalize_init") ELSE calls
    IN  [dev |-> [dev EXCEPT !.flags = @ \cup {"BT_DEV_READY"}],
         ret |-> 0,
         calls |-> IF "BT_DEV_STORE_ID" \in dev.flags
                   THEN Append(c1, "bt_settings_save_id") ELSE c1]

\* if (!atomic_test_bit(bt_dev.flags, BT_DEV_READY)) { bt_finalize_init(); }
\* if (atomic_test_and_clear_bit(bt_dev.flags, BT_DEV_STORE_ID)) {
\*         bt_settings_save_id(); }
CommitFinish(dev, calls) ==
    LET d1 == IF "BT_DEV_READY" \notin dev.flags THEN bt_finalize_init(dev) ELSE dev
        c1 == IF "BT_DEV_READY" \notin dev.flags
              THEN Append(calls, "bt_finalize_init") ELSE calls
    IN  IF "BT_DEV_STORE_ID" \in d1.flags
        THEN Commit([d1 EXCEPT !.flags = @ \ {"BT_DEV_STORE_ID"}], 0,
                    Append(c1, "bt_settings_save_id"))
        ELSE Commit(d1, 0, c1)

\* (variant) no random address is set up when the controller has no public one
CommitRandom_Skip(dev, calls, rnd) == CommitFinish(dev, calls)

\* (variant) a failed random set-up is logged and the run carries on
CommitRandom_FinishOnError(dev, calls, rnd) ==
    IF dev.id_count = 0
    THEN LET r == bt_setup_random_id_addr(dev, rnd)
             f == CommitFinish(r.dev, Append(calls, "bt_setup_random_id_addr"))
         IN  [f EXCEPT !.ret = r.err]
    ELSE CommitFinish(dev, calls)

\* the second  if (!bt_dev.id_count) { err = bt_setup_random_id_addr(); ... }
CommitRandom(dev, calls, rnd) ==
    IF dev.id_count = 0
    THEN LET r == bt_setup_random_id_addr(dev, rnd)
             c == Append(calls, "bt_setup_random_id_addr")
         IN  IF r.err # 0 THEN Commit(r.dev, r.err, c) ELSE CommitFinish(r.dev, c)
    ELSE CommitFinish(dev, calls)

\* (variant) commit_settings() without its BT_DEV_ENABLE gate
commit_settings_NoGate(dev, pub, rnd) ==
    LET d1 == CommitName(dev)
        c1 == IF dev.name[0] = NUL THEN <<"bt_set_name">> ELSE <<>>
    IN  IF d1.id_count = 0
        THEN LET r == bt_setup_public_id_addr(d1, pub)
                 c == Append(c1, "bt_setup_public_id_addr")
             IN  IF r.err # 0 THEN Commit(r.dev, r.err, c)
                 ELSE CommitRandom(r.dev, c, rnd)
        ELSE CommitRandom(d1, c1, rnd)

\* commit_settings(), where pub and rnd are what the two identity set-ups do
\* when they are called
commit_settings(dev, pub, rnd) ==
    IF "BT_DEV_ENABLE" \notin dev.flags THEN Commit(dev, 0, <<>>)
    ELSE LET d1 == CommitName(dev)
             c1 == IF dev.name[0] = NUL THEN <<"bt_set_name">> ELSE <<>>
         IN  IF d1.id_count = 0
             THEN LET r == bt_setup_public_id_addr(d1, pub)
                      c == Append(c1, "bt_setup_public_id_addr")
                  IN  IF r.err # 0 THEN Commit(r.dev, r.err, c)
                      ELSE CommitRandom(r.dev, c, rnd)
             ELSE CommitRandom(d1, c1, rnd)

(***************************************************************************)
(* save_id, the handler of save_id_work                                    *)
(***************************************************************************)
\* (variant) the whole array is written, whatever id_count is
ID_DATA_LEN_WholeArray(dev, elem) == CONFIG_BT_ID_MAX * elem

\* ID_DATA_LEN(array): bt_dev.id_count * sizeof(array[0])
ID_DATA_LEN(dev, elem) == dev.id_count * elem

\* the value settings_save_one(key, array, n) is handed: n bytes from the start
\* of the array; `over` tells that n reaches behind the array
SavedValue(array, size, n) ==
    [len |-> n,
     data |-> [i \in 1..(IF n < size THEN n ELSE size) |-> array[i - 1]],
     over |-> n > size]

\* a key of the store that holds nothing
NoValue == [len |-> 0, data |-> <<>>, over |-> FALSE]

\* save_id(work): two writes, each of which may fail and then leaves the
\* key as it was
save_id(dev, store, id_fails, irk_fails) ==
    [id  |-> IF id_fails THEN store.id
             ELSE SavedValue(dev.id_addr, SIZEOF_ID_ADDR, ID_DATA_LEN(dev, ADDR_LE_SIZE)),
     irk |-> IF irk_fails THEN store.irk
             ELSE SavedValue(dev.irk, SIZEOF_IRK, ID_DATA_LEN(dev, IRK_SIZE))]

(***************************************************************************)
(* State of the device side                                                *)
(***************************************************************************)
VARIABLES
    bt_dev,        \* struct bt_dev: flags, id_addr, id_count, name, appearance, irk
    prev,          \* bt_dev as it was when the last handler was entered
    work_pending,  \* save_id_work is submitted and has not run yet
    store,         \* the values of "bt/id" and "bt/irk" in the settings store
    nrestores,     \* set_setting calls so far
    last           \* the last handler that ran: its arguments and what it returned

dev_vars == <<bt_dev, prev, work_pending, store, nrestores, last>>

vars == <<codec_vars, dev_vars>>

\* stored values: n bytes 1, 2, .. n
Payload(n) == [i \in 1..n |-> i]

\* an identity address given to bt_id_create() before bt_enable()
PresetAddr == [i \in 0..(ADDR_LE_SIZE - 1) |-> IF i = 0 THEN 1 ELSE 160 + i]

\* bt_dev at start-up: no name, the compiled appearance, no identity unless
\* the application preset one
BootDev(flags_) ==
    [flags |-> flags_,
     id_addr |-> [i \in 0..(SIZEOF_ID_ADDR - 1) |->
                    IF "BT_DEV_PRESET_ID" \in flags_ /\ i < ADDR_LE_SIZE
                    THEN PresetAddr[i] ELSE 0],
     id_count |-> IF "BT_DEV_PRESET_ID" \in flags_ THEN 1 ELSE 0,
     name |-> Zeroes(SIZEOF_NAME),
     appearance |-> [i \in 0..(APPEARANCE_SIZE - 1) |-> 65 + i],
     irk |-> Zeroes(SIZEOF_IRK)]

BootFlags == {{}, {"BT_DEV_ENABLE"}, {"BT_DEV_PRESET_ID"},
              {"BT_DEV_ENABLE", "BT_DEV_PRESET_ID"}}

\* key names and stored values the settings store delivers
\* "i", "id", "idx", "id/x"
IdNames == {<<105>>, STR_ID, STR_ID \o <<120>>, STR_ID \o <<CH_SLASH, 120>>}

\* "n", "name"
NameNames == {<<110>>, STR_NAME}

\* "appear", "appearance"
AppearanceNames == {SubSeq(STR_APPEARANCE, 1, 6), STR_APPEARANCE}

\* "ir", "irk", "irkx"
IrkNames == {<<105, 114>>, STR_IRK, STR_IRK \o <<120>>}

\* NULL, "bt", "/id"
OtherNames == {NULLPTR, <<98, 116>>, <<CH_SLASH>> \o STR_ID}

IdLens == {0, ADDR_LE_SIZE - 1, ADDR_LE_SIZE, ADDR_LE_SIZE + ADDR_LE_SIZE \div 2,
           SIZEOF_ID_ADDR, SIZEOF_ID_ADDR + 1}

NameLens == {0, 1, CONFIG_BT_DEVICE_NAME_MAX + 1}

AppearanceLens == {APPEARANCE_SIZE - 1, APPEARANCE_SIZE, APPEARANCE_SIZE + 1}

IrkLens == {IRK_SIZE - 1, IRK_SIZE, SIZEOF_IRK + 1}

Delivery(names, lens, faillen) ==
    {[name |-> n, payload |-> Payload(l), fail |-> FALSE, stored |-> FALSE] :
        n \in names, l \in lens}
    \cup {[name |-> n, payload |-> Payload(faillen), fail |-> TRUE,
            stored |-> FALSE] : n \in names}

\* the four keys with every length, the other names with one length each
RestoreInputs ==
    Delivery({STR_ID}, IdLens, ADDR_LE_SIZE)
    \cup Delivery(IdNames, {ADDR_LE_SIZE}, ADDR_LE_SIZE)
    \cup Delivery({STR_NAME}, NameLens, 1)
    \cup Delivery(NameNames, {1}, 1)
    \cup Delivery({STR_APPEARANCE}, AppearanceLens, APPEARANCE_SIZE)
    \cup Delivery(AppearanceNames, {APPEARANCE_SIZE}, APPEARANCE_SIZE)
    \cup Delivery({STR_IRK}, IrkLens, IRK_SIZE)
    \cup Delivery(IrkNames, {IRK_SIZE}, IRK_SIZE)
    \cup Delivery(OtherNames, {ADDR_LE_SIZE}, 1)

\* the keys "bt/id" and "bt/irk" as save_id wrote them, delivered when the
\* settings are loaded; nothing is delivered for a key that was never written
\* or was written from behind the end of its array
StoredInputs(st) ==
    {[name |-> STR_ID, payload |-> st.id.data, fail |-> FALSE, stored |-> TRUE] :
        x \in IF st.id.len > 0 /\ ~st.id.over THEN {0} ELSE {}}
    \cup {[name |-> STR_IRK, payload |-> st.irk.data, fail |-> FALSE,
            stored |-> TRUE] :
            x \in IF st.irk.len > 0 /\ ~st.irk.over THEN {0} ELSE {}}

(***************************************************************************)
(* Initial states                                                          *)
(***************************************************************************)
CodecIdle ==
    /\ call = "none"
    /\ path = FreshMem(0)
    /\ path_size = 0
    /\ subsys = <<>>
    /\ addr = [type |-> 0, val |-> MkVal(0, 0, 0, 0, 0, 0)]
    /\ key = NULLPTR
    /\ wr = {}
    /\ rd = {}
    /\ dkey = <<>>
    /\ daddr0 = [type |-> 0, val |-> MkVal(0, 0, 0, 0, 0, 0)]
    /\ daddr = [type |-> 0, val |-> MkVal(0, 0, 0, 0, 0, 0)]
    /\ dret = 0

DevBoot(flags_) ==
    /\ bt_dev = BootDev(flags_)
    /\ prev = BootDev(flags_)
    /\ work_pending = FALSE
    /\ store = [id |-> NoValue, irk |-> NoValue]
    /\ nrestores = 0
    /\ last = [op |-> "none"]

Init == CodecIdle /\ \E f \in BootFlags : DevBoot(f)

InitCodec == CodecIdle /\ DevBoot({})

(***************************************************************************)
(* Actions of the device side                                              *)
(***************************************************************************)
\* the settings store delivers one stored key to the "bt" handler
SetSetting ==
    /\ nrestores < MaxRestores
    /\ \E in \in RestoreInputs \cup StoredInputs(store) :
         LET r == set_setting(bt_dev, in.name, in.payload, in.fail)
         IN  /\ bt_dev' = r.dev
             /\ prev' = bt_dev
             /\ last' = [op |-> "set_setting", name |-> in.name,
                         len_rd |-> Len(in.payload), stored |-> in.stored,
                         read |-> r.read, len |-> r.len, ret |-> r.ret]
    /\ nrestores' = nrestores + 1
    /\ UNCHANGED <<work_pending, store>>
    /\ UNCHANGED codec_vars

\* bt_settings_save_id(): k_work_submit(&save_id_work)
bt_settings_save_id(pending) == TRUE

\* another part of the host calls bt_settings_save_id(): the identity code
\* (bt_id_create(), bt_id_reset(), bt_id_delete() in id.c) does so once the
\* stack is ready; submitting a work item that is pending changes nothing
SaveIdRequest ==
    /\ "BT_DEV_READY" \in bt_dev.flags
    /\ work_pending' = bt_settings_save_id(work_pending)
    /\ prev' = bt_dev
    /\ last' = [op |-> "bt_settings_save_id"]
    /\ UNCHANGED <<bt_dev, store, nrestores>>
    /\ UNCHANGED codec_vars

\* the settings store calls the "bt" commit handler
CommitSettings ==
    /\ \E pub \in {"ok", "none", "fail"}, rnd \in {"ok", "fail"} :
         LET r == commit_settings(bt_dev, pub, rnd)
             submit == Called(r.calls, "bt_settings_save_id")
         IN  /\ bt_dev' = r.dev
             /\ prev' = bt_dev
             /\ work_pending' = IF submit THEN bt_settings_save_id(work_pending)
                                ELSE work_pending
             /\ last' = [op |-> "commit_settings", ret |-> r.ret, calls |-> r.calls,
                         pub |-> IF Called(r.calls, "bt_setup_public_id_addr")
                                 THEN pub ELSE "not called",
                         rnd |-> IF Called(r.calls, "bt_setup_random_id_addr")
                                 THEN rnd ELSE "not called"]
    /\ UNCHANGED <<store, nrestores>>
    /\ UNCHANGED codec_vars

\* the system work queue runs save_id_work
SaveIdWork ==
    /\ work_pending
    /\ \E id_fails \in BOOLEAN, irk_fails \in BOOLEAN :
         /\ store' = save_id(bt_dev, store, id_fails, irk_fails)
         /\ last' = [op |-> "save_id", id_fails |-> id_fails, irk_fails |-> irk_fails]
    /\ work_pending' = FALSE
    /\ prev' = bt_dev
    /\ UNCHANGED <<bt_dev, nrestores>>
    /\ UNCHANGED codec_vars

\* the device restarts and, with the settings loaded again, the store delivers
\* a key that save_id wrote: bt_dev is as at start-up when set_setting runs, a
\* submitted work item is gone, the store keeps what was written
Reload ==
    /\ nrestores < MaxRestores
    /\ \E f \in BootFlags, in \in StoredInputs(store) :
         LET r == set_setting(BootDev(f), in.name, in.payload, in.fail)
         IN  /\ bt_dev' = r.dev
             /\ prev' = BootDev(f)
             /\ last' = [op |-> "set_setting", name |-> in.name,
                         len_rd |-> Len(in.payload), stored |-> in.stored,
                         read |-> r.read, len |-> r.len, ret |-> r.ret]
    /\ work_pending' = FALSE
    /\ nrestores' = nrestores + 1
    /\ UNCHANGED store
    /\ UNCHANGED codec_vars

Next == SetSetting \/ CommitSettings \/ SaveIdRequest \/ SaveIdWork \/ Reload

Spec == Init /\ [][Next]_vars

(***************************************************************************)
(* Actions of the codec                                                    *)
(***************************************************************************)
\* calls of the encoder: every capacity with a few addresses, subsystems and
\* leaf keys, and every byte value in every address position with a buffer
\* that holds the whole path
EncodeInputs ==
    {[path_size |-> c, subsys |-> s, addr |-> [type |-> t, val |-> v], key |-> k] :
        c \in 0..MaxCap, s \in Subsystems, t \in AddrTypes, v \in BaseVals,
        k \in LeafKeys}
    \cup {[path_size |-> FullLen(<<115>>, NULLPTR) + 1, subsys |-> <<115>>,
           addr |-> [type |-> t, val |-> v], key |-> NULLPTR] :
            t \in AddrTypes, v \in FullRangeVals}

\* a caller encodes a key into a buffer of path_size bytes
EncodeKey ==
    /\ call = "none"
    /\ \E in \in EncodeInputs, nul_at \in 0..MaxOverread :
         LET st == bt_settings_encode_key(FreshMem(in.path_size + nul_at),
                                          in.path_size, in.subsys, in.addr, in.key)
         IN  /\ path' = st.mem
             /\ wr' = st.wr
             /\ rd' = st.rd
             /\ path_size' = in.path_size
             /\ subsys' = in.subsys
             /\ addr' = in.addr
             /\ key' = in.key
    /\ call' = "encode"
    /\ UNCHANGED <<dkey, daddr0, daddr, dret>>
    /\ UNCHANGED dev_vars

\* offset of the address/type segment in an encoded path
SegmentAt(subsys_) == 3 + Len(subsys_) + 1

\* a caller decodes the text behind "bt/<subsys>/" of the path just encoded
DecodeEncoded ==
    /\ call = "encode"
    /\ SegmentAt(subsys) < path_size
    /\ \E a \in CallerAddrs :
         LET k == CStringAt(path, SegmentAt(subsys))
             r == bt_settings_decode_key(k, a)
         IN  /\ dkey' = k
             /\ daddr0' = a
             /\ daddr' = r.addr
             /\ dret' = r.ret
    /\ call' = "decode"
    /\ UNCHANGED <<path, path_size, subsys, addr, key, wr, rd>>
    /\ UNCHANGED dev_vars

\* a settings handler decodes a key name the store delivers
DecodeKey ==
    /\ call = "none"
    /\ \E k \in DecodeKeys, a \in CallerAddrs :
         LET r == bt_settings_decode_key(k, a)
         IN  /\ dkey' = k
             /\ daddr0' = a
             /\ daddr' = r.addr
             /\ dret' = r.ret
    /\ call' = "decode"
    /\ UNCHANGED <<path, path_size, subsys, addr, key, wr, rd>>
    /\ UNCHANGED dev_vars

NextCodec == EncodeKey \/ DecodeEncoded \/ DecodeKey

SpecCodec == InitCodec /\ [][NextCodec]_vars

(***************************************************************************)
(* Vocabulary of the properties                                            *)
(***************************************************************************)
\* the first segment of a settings name: the text before the first '/' or '='
FirstSegment(s) ==
    LET ends == {i \in 1..Len(s) : s[i] = CH_SLASH \/ s[i] = CH_EQ}
    IN  IF ends = {} THEN s ELSE SubSeq(s, 1, SetMin(ends) - 1)

\* "0123456789abcdef"
LowerHexDigits == <<48, 49, 50, 51, 52, 53, 54, 55, 56, 57, 97, 98, 99, 100, 101, 102>>

\* the characters "0".."9", "a".."f", "A".."F"
HexDigitChars == {LowerHexDigits[i] : i \in 1..16} \cup {65, 66, 67, 68, 69, 70}

\* the two lower-case hex digits of byte b
ByteText(b) == <<LowerHexDigits[(b \div 16) + 1], LowerHexDigits[(b % 16) + 1]>>

\* <addr-hex-reversed><type-digit> of the path grammar
SegmentText(a) ==
    ByteText(a.val[5]) \o ByteText(a.val[4]) \o ByteText(a.val[3]) \o
    ByteText(a.val[2]) \o ByteText(a.val[1]) \o ByteText(a.val[0]) \o
    <<IF a.type = 0 THEN CH_0 ELSE CH_1>>

\* "bt/" <subsys> "/" <addr-hex-reversed> <type-digit> ["/" <key>]
FullText(subsys_, a, key_) ==
    STR_BT \o subsys_ \o <<CH_SLASH>> \o SegmentText(a) \o
    (IF key_ = NULLPTR THEN <<>> ELSE <<CH_SLASH>> \o key_)

\* the encoder was given room for the whole path and its terminator
RoomForAll == path_size > Len(FullText(subsys, addr, key))

\* the decoder ran on the segment of a path encoded before
DecodedEncoded == call = "decode" /\ path_size > 0

(***************************************************************************)
(* C1  Round trip.  When a path is encoded without a leaf key into a       *)
(* buffer that holds all of it, and the 13 characters behind               *)
(* "bt/<subsys>/" are handed to the decoder, the decoder succeeds and      *)
(* leaves exactly the encoded address bytes (same positions) and type.     *)
(***************************************************************************)
C1_RoundTrip ==
    (DecodedEncoded /\ key = NULLPTR /\ RoomForAll)
        => (Len(dkey) = 13 /\ dret = 0 /\ daddr.val = addr.val
            /\ daddr.type = addr.type)

C1_Witness ==
    /\ DecodedEncoded /\ key = NULLPTR /\ RoomForAll
    /\ addr.val[3] = 255 /\ addr.type = 1
    /\ daddr0 # addr /\ daddr = addr /\ dret = 0

(***************************************************************************)
(* C2  The encoder never stores at an offset >= path_size; with            *)
(* path_size >= 1 the result has a NUL at an offset <= path_size - 1; with *)
(* path_size = 0 it stores nothing.                                        *)
(***************************************************************************)
C2_WithinCapacity ==
    (call = "encode")
        => /\ \A i \in wr : i < path_size
           /\ path_size >= 1 => \E i \in 0..(path_size - 1) : path[i] = NUL
           /\ path_size = 0 => wr = {}

\* a truncated encoding: the path does not fit and the buffer ends in a NUL
C2_Witness ==
    /\ call = "encode" /\ path_size > 3 /\ ~RoomForAll
    /\ Len(CStringAt(path, 0)) = path_size - 1
    /\ (path_size - 1) \in wr

(***************************************************************************)
(* C3  With room for the whole path the encoder produces exactly           *)
(* "bt/" subsys "/" + 12 lower-case hex digits of bytes 5,4,3,2,1,0 + the  *)
(* type digit + ("/" key when a key is given); bytes 01 02 03 04 05 06     *)
(* with type 0 give "0605040302010".                                       *)
(***************************************************************************)
C3_FullEncoding ==
    (call = "encode" /\ RoomForAll)
        => CStringAt(path, 0) = FullText(subsys, addr, key)

\* "0605040302010"
C3_ExampleSegment == <<48, 54, 48, 53, 48, 52, 48, 51, 48, 50, 48, 49, 48>>

C3_Witness ==
    /\ call = "encode" /\ RoomForAll /\ key # NULLPTR /\ Len(key) > 0
    /\ addr = [type |-> 0, val |-> MkVal(1, 2, 3, 4, 5, 6)]
    /\ SubSeq(CStringAt(path, 0), SegmentAt(subsys) + 1, SegmentAt(subsys) + 13)
         = C3_ExampleSegment

(***************************************************************************)
(* C4  The decoder fails for every key whose first segment is not 13       *)
(* characters long and for every key with a 13-character first segment     *)
(* whose 13th character is neither '0' nor '1'; in both cases *addr is     *)
(* left as it was.                                                         *)
(***************************************************************************)
C4_Rejected(k) ==
    \/ Len(FirstSegment(k)) # 13
    \/ (FirstSegment(k)[13] # CH_0 /\ FirstSegment(k)[13] # CH_1)

C4_DecodeRejects ==
    (call = "decode" /\ C4_Rejected(dkey)) => (dret = -EINVAL /\ daddr = daddr0)

C4_Witness ==
    /\ call = "decode" /\ Len(FirstSegment(dkey)) = 13 /\ FirstSegment(dkey)[13] = 50
    /\ dret = -EINVAL /\ daddr0.type = 1 /\ daddr = daddr0

(***************************************************************************)
(* C5  The decoder accepts a key only if it is exactly 12 hex digits and   *)
(* one type digit '0'/'1' with nothing behind them; every other key is     *)
(* rejected with an error and leaves *addr as it was.                      *)
(***************************************************************************)
C5_WellFormed(k) ==
    /\ Len(k) = 13
    /\ \A i \in 1..12 : k[i] \in HexDigitChars
    /\ k[13] \in {CH_0, CH_1}

C5_GrammarOnly ==
    (call = "decode" /\ ~C5_WellFormed(dkey)) => (dret # 0 /\ daddr = daddr0)

\* the last handler was set_setting with a key whose first segment is `lit`
Restored(lit) ==
    /\ last.op = "set_setting"
    /\ last.name # NULLPTR
    /\ FirstSegment(last.name) = lit

\* set_setting ran with BT_DEV_ENABLE set
RestoredEnabled == last.op = "set_setting" /\ "BT_DEV_ENABLE" \in prev.flags

(***************************************************************************)
(* C6  With the stack enabled, a key whose first segment is none of "id",  *)
(* "name", "appearance", "irk" makes set_setting return -ENOENT without    *)
(* calling read_cb and without changing bt_dev.                            *)
(***************************************************************************)
C6_KnownKeys == {STR_ID, STR_NAME, STR_APPEARANCE, STR_IRK}

C6_UnknownKeyNotFound ==
    (RestoredEnabled /\ ~(\E lit \in C6_KnownKeys : Restored(lit)))
        => (last.ret = -ENOENT /\ ~last.read /\ bt_dev = prev)

(***************************************************************************)
(* C7  Restoring "id" without preset identities, when read_cb returns a    *)
(* length L of at least one element, sets id_count to L divided by the     *)
(* element size, rounded down; id_count does not exceed the elements of    *)
(* id_addr[]; the handler returns 0.                                       *)
(***************************************************************************)
C7_IdCountFloor ==
    (Restored(STR_ID) /\ "BT_DEV_PRESET_ID" \notin prev.flags
       /\ last.read /\ last.len >= ADDR_LE_SIZE)
        => /\ bt_dev.id_count = last.len \div ADDR_LE_SIZE
           /\ bt_dev.id_count <= CONFIG_BT_ID_MAX
           /\ last.ret = 0

\* one element and a half were read: one identity
C7_Witness ==
    /\ Restored(STR_ID) /\ "BT_DEV_PRESET_ID" \notin prev.flags
    /\ last.read /\ last.len = ADDR_LE_SIZE + ADDR_LE_SIZE \div 2
    /\ bt_dev.id_count = 1 /\ last.ret = 0

(***************************************************************************)
(* C8  Restoring "id" without preset identities, when read_cb returns less *)
(* than one element (0 <= L < element size, or a negative error), leaves   *)
(* id_addr[] all zero and id_count 0 and returns 0.                        *)
(***************************************************************************)
C8_ShortOrFailedReadZeroes ==
    (Restored(STR_ID) /\ "BT_DEV_PRESET_ID" \notin prev.flags
       /\ last.read /\ last.len < ADDR_LE_SIZE)
        => /\ bt_dev.id_addr = Zeroes(SIZEOF_ID_ADDR)
           /\ bt_dev.id_count = 0
           /\ last.ret = 0

(***************************************************************************)
(* C9  With BT_DEV_PRESET_ID set, restoring "id" returns 0 without calling *)
(* read_cb and leaves id_addr[] and id_count as they were, whatever is     *)
(* stored.                                                                 *)
(***************************************************************************)
C9_PresetIdKept ==
    (Restored(STR_ID) /\ "BT_DEV_PRESET_ID" \in prev.flags)
        => /\ last.ret = 0
           /\ ~last.read
           /\ bt_dev.id_addr = prev.id_addr
           /\ bt_dev.id_count = prev.id_count

\* a full stored array meets a preset identity on an enabled stack
C9_Witness ==
    /\ Restored(STR_ID) /\ prev.flags = {"BT_DEV_ENABLE", "BT_DEV_PRESET_ID"}
    /\ last.len_rd = SIZEOF_ID_ADDR
    /\ bt_dev.id_count = 1 /\ bt_dev.id_addr[1] = PresetAddr[1]

(***************************************************************************)
(* C10  As claimed: restoring "appearance" with a stored length other than *)
(* sizeof(bt_dev.appearance) returns -EINVAL before read_cb is called and  *)
(* leaves bt_dev.appearance as it was.                                     *)
(***************************************************************************)
C10_AsClaimed ==
    (Restored(STR_APPEARANCE) /\ last.len_rd # APPEARANCE_SIZE)
        => /\ last.ret = -EINVAL
           /\ ~last.read
           /\ bt_dev.appearance = prev.appearance

(***************************************************************************)
(* C10 (amended)  With BT_DEV_ENABLE set, restoring "appearance" with a    *)
(* stored length other than sizeof(bt_dev.appearance) returns -EINVAL      *)
(* before read_cb is called and leaves bt_dev.appearance as it was; with   *)
(* BT_DEV_ENABLE clear the call returns 0, also without reading or         *)
(* changing anything.                                                      *)
(***************************************************************************)
C10_AppearanceLength ==
    (Restored(STR_APPEARANCE) /\ last.len_rd # APPEARANCE_SIZE)
        => /\ last.ret = (IF "BT_DEV_ENABLE" \in prev.flags THEN -EINVAL ELSE 0)
           /\ ~last.read
           /\ bt_dev.appearance = prev.appearance

C10_Witness ==
    /\ Restored(STR_APPEARANCE) /\ "BT_DEV_ENABLE" \in prev.flags
    /\ last.len_rd = APPEARANCE_SIZE + 1
    /\ last.ret = -EINVAL /\ ~last.read /\ bt_dev.appearance = prev.appearance

(***************************************************************************)
(* C11  Restoring "name" when read_cb returns a negative result leaves     *)
(* bt_dev.name as it was and makes set_setting return a non-zero result.   *)
(***************************************************************************)
C11_NameReadFailureReported ==
    (RestoredEnabled /\ Restored(STR_NAME) /\ last.read /\ last.len < 0)
        => (bt_dev.name = prev.name /\ last.ret # 0)

(***************************************************************************)
(* C12  Restoring "irk" when read_cb delivers less than one IRK (a length  *)
(* 0 <= L < 16 or a negative result) leaves bt_dev.irk[] all zero.         *)
(***************************************************************************)
C12_ShortOrFailedIrkZeroes ==
    (RestoredEnabled /\ Restored(STR_IRK) /\ last.read /\ last.len < IRK_SIZE)
        => bt_dev.irk = Zeroes(SIZEOF_IRK)

\* the step is a run of commit_settings
CommitStep == last'.op = "commit_settings"

(***************************************************************************)
(* C13  commit_settings called with BT_DEV_ENABLE clear returns 0 and      *)
(* changes nothing: bt_dev (name, id_addr, id_count, BT_DEV_READY,         *)
(* BT_DEV_STORE_ID) stays as it was, no collaborator is called and         *)
(* save_id_work is not submitted.                                          *)
(***************************************************************************)
C13_DisabledCommitIsNoOp ==
    [][(CommitStep /\ "BT_DEV_ENABLE" \notin bt_dev.flags)
         => /\ last'.ret = 0
            /\ bt_dev' = bt_dev
            /\ last'.calls = <<>>
            /\ work_pending' = work_pending
            /\ store' = store]_vars

\* a disabled stack without name and identity was committed
C13_Witness ==
    /\ last.op = "commit_settings" /\ "BT_DEV_ENABLE" \notin prev.flags
    /\ prev.id_count = 0 /\ prev.name[0] = NUL
    /\ bt_dev = prev /\ last.ret = 0 /\ last.calls = <<>> /\ ~work_pending

\* commit_settings ran with BT_DEV_ENABLE set
CommittedEnabled == last.op = "commit_settings" /\ "BT_DEV_ENABLE" \in prev.flags

(***************************************************************************)
(* C14  After any restores, a run of commit_settings with BT_DEV_ENABLE    *)
(* set that returns 0 leaves id_count >= 1.  With id_count 0 it calls      *)
(* bt_setup_public_id_addr first and bt_setup_random_id_addr after it,     *)
(* the latter only when the public set-up left id_count at 0.              *)
(***************************************************************************)
C14_NeverZeroIdentities ==
    CommittedEnabled
        => /\ last.ret = 0 => bt_dev.id_count >= 1
           /\ prev.id_count = 0 <=> Called(last.calls, "bt_setup_public_id_addr")
           /\ Called(last.calls, "bt_setup_random_id_addr")
                => /\ CalledBefore(last.calls, "bt_setup_public_id_addr",
                                   "bt_setup_random_id_addr")
                   /\ last.pub = "none"
           /\ (prev.id_count = 0 /\ last.pub = "none")
                => Called(last.calls, "bt_setup_random_id_addr")

\* restores wiped the identities, the controller has no public address and a
\* random one is generated
C14_Witness ==
    /\ CommittedEnabled /\ nrestores > 0 /\ prev.id_count = 0
    /\ last.pub = "none" /\ last.rnd = "ok" /\ last.ret = 0
    /\ bt_dev.id_count = 1 /\ bt_dev.id_addr[0] = 1

(***************************************************************************)
(* C15  A run of commit_settings that starts with id_count 0 and gets a    *)
(* public address leaves id_count 1 and submits save_id_work exactly once  *)
(* (BT_DEV_STORE_ID is cleared by the test); a run of commit_settings that *)
(* directly follows a successful one submits nothing.                      *)
(***************************************************************************)
C15_SubmitCount(calls) ==
    Cardinality({i \in 1..Len(calls) : calls[i] = "bt_settings_save_id"})

C15_PersistScheduledOnce ==
    [][CommitStep
         => /\ ("BT_DEV_ENABLE" \in bt_dev.flags /\ bt_dev.id_count = 0
                  /\ last'.pub = "ok")
                 => /\ bt_dev'.id_count = 1
                    /\ C15_SubmitCount(last'.calls) = 1
                    /\ work_pending'
                    /\ "BT_DEV_STORE_ID" \notin bt_dev'.flags
            /\ (last.op = "commit_settings" /\ last.ret = 0
                  /\ "BT_DEV_ENABLE" \in bt_dev.flags)
                 => /\ C15_SubmitCount(last'.calls) = 0
                    /\ work_pending' = work_pending
                    /\ bt_dev'.id_count = bt_dev.id_count]_vars

\* the second of two runs in a row: the first one generated the identity and
\* submitted the work, the second one called nothing
C15_Witness ==
    /\ CommittedEnabled /\ last.calls = <<>> /\ last.ret = 0
    /\ prev = bt_dev /\ bt_dev.id_count = 1
    /\ \A i \in 0..(ADDR_LE_SIZE - 1) : bt_dev.id_addr[i] = GenAddr(0)[i]
    /\ "BT_DEV_READY" \in bt_dev.flags /\ "BT_DEV_STORE_ID" \notin bt_dev.flags
    /\ work_pending

(***************************************************************************)
(* C16  When bt_setup_public_id_addr or bt_setup_random_id_addr fails,     *)
(* commit_settings returns that error and does nothing more:               *)
(* bt_finalize_init is not called, BT_DEV_STORE_ID is not cleared,         *)
(* save_id_work is not submitted; the default name set before stays.       *)
(***************************************************************************)
C16_FailureAborts ==
    [][(CommitStep /\ (last'.pub = "fail" \/ last'.rnd = "fail"))
         => /\ last'.ret = -ENOMEM
            /\ ~Called(last'.calls, "bt_finalize_init")
            /\ ~Called(last'.calls, "bt_settings_save_id")
            /\ bt_dev'.flags = bt_dev.flags
            /\ work_pending' = work_pending
            /\ bt_dev' = CommitName(bt_dev)]_vars

\* the controller has no public address and the random set-up fails, after
\* the default name was set
C16_Witness ==
    /\ CommittedEnabled /\ last.pub = "none" /\ last.rnd = "fail"
    /\ last.ret = -ENOMEM /\ "BT_DEV_READY" \notin bt_dev.flags
    /\ prev.name[0] = NUL /\ bt_dev.name[0] = CONFIG_BT_DEVICE_NAME[1]
    /\ bt_dev.id_count = 0 /\ ~work_pending

\* the values of "bt/id" and "bt/irk" change only in a run of save_id that the
\* work queue started
StoreWrittenByWorkOnly ==
    store' # store => (work_pending /\ last'.op = "save_id")

(***************************************************************************)
(* C17  As claimed: "bt/id" and "bt/irk" are written only by save_id       *)
(* running on the work queue, never by set_setting or commit_settings      *)
(* themselves; and a run of commit_settings that submits save_id_work has  *)
(* called bt_finalize_init before, in the same run.                        *)
(***************************************************************************)
C17_AsClaimed ==
    [][/\ StoreWrittenByWorkOnly
       /\ (CommitStep /\ Called(last'.calls, "bt_settings_save_id"))
            => CalledBefore(last'.calls, "bt_finalize_init",
                            "bt_settings_save_id")]_vars

(***************************************************************************)
(* C17 (amended)  "bt/id" and "bt/irk" are written only by save_id running *)
(* on the work queue, never by set_setting or commit_settings themselves;  *)
(* and when a run of commit_settings submits save_id_work the stack is     *)
(* ready: bt_finalize_init was called before in the same run, or           *)
(* BT_DEV_READY was set already when the run began.                        *)
(***************************************************************************)
C17_WritesDeferred ==
    [][/\ StoreWrittenByWorkOnly
       /\ (CommitStep /\ Called(last'.calls, "bt_settings_save_id"))
            => /\ "BT_DEV_READY" \in bt_dev'.flags
               /\ \/ "BT_DEV_READY" \in bt_dev.flags
                     /\ ~Called(last'.calls, "bt_finalize_init")
                  \/ "BT_DEV_READY" \notin bt_dev.flags
                     /\ CalledBefore(last'.calls, "bt_finalize_init",
                                     "bt_settings_save_id")]_vars

\* a ready stack lost its identities to a short "id" value; the run generated
\* a new identity and submitted the work without finalizing again, and
\* nothing is written yet
C17_Witness ==
    /\ CommittedEnabled /\ "BT_DEV_READY" \in prev.flags
    /\ Called(last.calls, "bt_settings_save_id")
    /\ ~Called(last.calls, "bt_finalize_init")
    /\ work_pending /\ store.id = NoValue /\ store.irk = NoValue

(***************************************************************************)
(* C18  When path_size > 3 is too small for the whole path, the string     *)
(* the encoder leaves in path is a prefix of the whole path: no character  *)
(* differs from the character at the same offset of the full encoding.     *)
(***************************************************************************)
C18_TruncationIsPrefix ==
    (call = "encode" /\ path_size > 3 /\ ~RoomForAll)
        => LET out == CStringAt(path, 0)
               full == FullText(subsys, addr, key)
           IN  /\ Len(out) <= Len(full)
               /\ out = SubSeq(full, 1, Len(out))

(***************************************************************************)
(* C19  The encoder never reads path at an offset >= path_size, whatever   *)
(* the lengths of subsys and key: every strlen over path ends at a NUL     *)
(* inside the buffer.                                                      *)
(***************************************************************************)
C19_ReadsWithinCapacity ==
    (call = "encode") => \A i \in rd : i < path_size

\* the first n bytes of an array, as a stored value
FirstBytes(array, n) == [i \in 1..n |-> array[i - 1]]

(***************************************************************************)
(* C20  save_id writes id_count * sizeof(bt_addr_le_t) bytes from the      *)
(* start of id_addr[] under "bt/id" and id_count * 16 bytes from the start *)
(* of irk[] under "bt/irk"; for 1 <= id_count <= CONFIG_BT_ID_MAX,         *)
(* restoring "id" from the value written, without preset identities, gives *)
(* the same id_count and the same addresses.                               *)
(***************************************************************************)
C20_PersistThenRestore ==
    /\ (last.op = "save_id" /\ bt_dev.id_count \in 1..CONFIG_BT_ID_MAX)
         => /\ ~last.id_fails
                 => store.id = [len |-> bt_dev.id_count * ADDR_LE_SIZE,
                                data |-> FirstBytes(bt_dev.id_addr,
                                                    bt_dev.id_count * ADDR_LE_SIZE),
                                over |-> FALSE]
            /\ ~last.irk_fails
                 => store.irk = [len |-> bt_dev.id_count * IRK_SIZE,
                                 data |-> FirstBytes(bt_dev.irk,
                                                     bt_dev.id_count * IRK_SIZE),
                                 over |-> FALSE]
    /\ \A n \in 1..CONFIG_BT_ID_MAX :
         (/\ last.op = "set_setting" /\ last.stored /\ last.name = STR_ID
          /\ "BT_DEV_ENABLE" \in prev.flags
          /\ "BT_DEV_PRESET_ID" \notin prev.flags
          /\ store.id.len = n * ADDR_LE_SIZE)
           => /\ last.ret = 0
              /\ bt_dev.id_count = n
              /\ FirstBytes(bt_dev.id_addr, n * ADDR_LE_SIZE) = store.id.data

\* two identities were written; after a restart the value is delivered to a
\* bt_dev without identities
C20_Witness ==
    /\ last.op = "set_setting" /\ last.stored /\ last.name = STR_ID
    /\ prev = BootDev({"BT_DEV_ENABLE"})
    /\ store.id.len = 2 * ADDR_LE_SIZE
    /\ bt_dev.id_count = 2
    /\ FirstBytes(bt_dev.id_addr, 2 * ADDR_LE_SIZE) = Payload(2 * ADDR_LE_SIZE)

=============================================================================
